---- MODULE Spec2Model ----
(***************************************************************************)
(* Model of device_tree_reader.py: parse_device_tree (node-boundary        *)
(* scanner, tree builder, property extraction pass) and the property value *)
(* classes it uses.                                                        *)
(*                                                                         *)
(* Text is a sequence of one-character strings.  All offsets are Python    *)
(* offsets (0-based); At(s, p) is s[p] of the source.  A regular           *)
(* expression group that did not take part in a match (Python None) is the *)
(* empty sequence, a missing node reference (Python None) is 0.            *)
(***************************************************************************)
EXTENDS Integers, Sequences, FiniteSets, TLC

VARIABLES contents, pc, pos, nodes, current_node, root_nodes, prop_index,
          mixed_default_value, error, result

vars == <<contents, pc, pos, nodes, current_node, root_nodes, prop_index,
          mixed_default_value, error, result>>

(***************************************************************************)
(* Bounds of the model                                                     *)
(***************************************************************************)
MaxPieces == 4

(***************************************************************************)
(* Characters and character classes of the regular expressions             *)
(***************************************************************************)
None == <<>>
NoNode == 0
\* parse_device_tree has not returned: there is no list of root nodes
NoResult == [returned |-> FALSE, root_nodes |-> <<>>]

Digits == {"0", "1", "2", "3", "4", "5", "6", "7", "8", "9"}

HexLetters == {"a", "b", "c", "d", "e", "f", "A", "B", "C", "D", "E", "F"}

UpperLetters == {"A", "B", "C", "D", "E", "F", "G", "H", "I", "J", "K", "L", "M",
                 "N", "O", "P", "Q", "R", "S", "T", "U", "V", "W", "X", "Y", "Z"}

LowerLetters == {"a", "b", "c", "d", "e", "f", "g", "h", "i", "j", "k", "l", "m",
                 "n", "o", "p", "q", "r", "s", "t", "u", "v", "w", "x", "y", "z"}

\* \w
WordChars == Digits \cup UpperLetters \cup LowerLetters \cup {"_"}

\* [\w,.+\-]
NameChars == WordChars \cup {",", ".", "+", "-"}

\* [\w,.+\-/]
NameSlashChars == NameChars \cup {"/"}

\* [\w,.+?#\-]
PropertyNameChars == NameChars \cup {"?", "#"}

\* \s
SpaceChars == {" ", "\t", "\n", "\r", "\f"}

\* the blank of the pattern's space repetitions
Blank == {" "}

(***************************************************************************)
(* Python string primitives                                                *)
(***************************************************************************)
At(s, p) == s[p + 1]

\* s[a:b] for 0 <= a, any b (a negative b counts from the end)
Slice(s, a, b) ==
    LET e0 == IF b < 0 THEN b + Len(s) ELSE b
        e  == IF e0 > Len(s) THEN Len(s) ELSE IF e0 < 0 THEN 0 ELSE e0
    IN  IF a >= e THEN <<>> ELSE SubSeq(s, a + 1, e)

\* the offset one past the longest run of characters of class C that starts at p
RECURSIVE RunEnd(_, _, _)
RunEnd(s, p, C) ==
    IF p < Len(s) /\ At(s, p) \in C THEN RunEnd(s, p + 1, C) ELSE p

IsAt(s, p, ch) == p >= 0 /\ p < Len(s) /\ At(s, p) = ch

\* re.search(Regex.root_node, contents) with root_node = '/ {'
HasRootNode(s) ==
    \E p \in 0 .. Len(s) - 3 : IsAt(s, p, "/") /\ IsAt(s, p + 1, " ") /\ IsAt(s, p + 2, "{")

(***************************************************************************)
(* Node-boundary scanner: the pattern of re.finditer in parse_device_tree. *)
(* An open is either an ampersand, a run of N and the brace (overlay), or  *)
(* an optional label (run of N, blanks, colon, blanks), a name (run of S), *)
(* an optional unit address (at sign, run of N) and the brace; blanks may  *)
(* precede the brace.  A close is a run of blanks, then brace, semicolon.  *)
(* N = [\w,.+\-] and S = [\w,.+\-/].  Every repetition is followed by a   *)
(* character outside its class, so the greedy run is the only candidate.   *)
(***************************************************************************)
NoMatch == [ok |-> FALSE, start |-> 0, end |-> 0, text |-> <<>>,
            phandle_only |-> None, phandle |-> None, name |-> None, at |-> None]

MkMatch(s, p, e, po, ph, nm, a) ==
    [ok |-> TRUE, start |-> p, end |-> e, text |-> Slice(s, p, e),
     phandle_only |-> po, phandle |-> ph, name |-> nm, at |-> a]

\* overlay header: ampersand, phandle_only, blanks, brace
OverlayHeader(s, p) ==
    LET q == RunEnd(s, p + 1, NameChars)
        r == RunEnd(s, q, Blank)
    IN  IF IsAt(s, p, "&") /\ q > p + 1 /\ IsAt(s, r, "{")
        THEN MkMatch(s, p, r + 1, Slice(s, p + 1, q), None, None, None)
        ELSE NoMatch

\* name, optional unit address, blanks, brace; name starts at n0, match at p
NameHeader(s, p, n0, ph) ==
    LET n1    == RunEnd(s, n0, NameSlashChars)
        a1    == RunEnd(s, n1 + 1, NameChars)
        hasAt == IsAt(s, n1, "@") /\ a1 > n1 + 1
        e     == IF hasAt THEN a1 ELSE n1
        r     == RunEnd(s, e, Blank)
    IN  IF n1 > n0 /\ IsAt(s, r, "{")
        THEN MkMatch(s, p, r + 1, None, ph, Slice(s, n0, n1),
                     IF hasAt THEN Slice(s, n1 + 1, a1) ELSE None)
        ELSE NoMatch

\* optional label (phandle), then the name header
NodeHeader(s, p) ==
    LET l  == RunEnd(s, p, NameChars)
        c  == RunEnd(s, l, Blank)
        n0 == RunEnd(s, c + 1, Blank)
        labelled == IF l > p /\ IsAt(s, c, ":")
                    THEN NameHeader(s, p, n0, Slice(s, p, l))
                    ELSE NoMatch
    IN  IF labelled.ok THEN labelled ELSE NameHeader(s, p, p, None)

\* close: blanks, closing brace, semicolon
CloseScope(s, p) ==
    LET r == RunEnd(s, p, Blank)
    IN  IF IsAt(s, r, "}") /\ IsAt(s, r + 1, ";")
        THEN MkMatch(s, p, r + 2, None, None, None, None)
        ELSE NoMatch

\* the pattern tried at offset p: alternatives in the order of the pattern
ScopeMatchAt(s, p) ==
    IF OverlayHeader(s, p).ok THEN OverlayHeader(s, p)
    ELSE IF NodeHeader(s, p).ok THEN NodeHeader(s, p)
    ELSE CloseScope(s, p)

\* next(node_scopes): the leftmost match at or after p
RECURSIVE NextScope(_, _)
NextScope(s, p) ==
    IF p >= Len(s) THEN NoMatch
    ELSE IF ScopeMatchAt(s, p).ok THEN ScopeMatchAt(s, p)
    ELSE NextScope(s, p + 1)

Last(s) == s[Len(s)]

\* match[0][-1] == '{'
IsOpenMatch(m) == m.ok /\ Last(m.text) = "{"

\* match[0] == '};' and match['name'] == None
IsCloseMatch(m) == m.ok /\ ~IsOpenMatch(m) /\ m.text = <<"}", ";">> /\ m.name = None

(***************************************************************************)
(* DeviceTreeNode and the tree of anytree.NodeMixin                        *)
(***************************************************************************)
\* DeviceTreeNode.__init__ with parent = None: spans start as [-1, -1]
DeviceTreeNode(name, is_overlay, phandle, at, parent) ==
    [name |-> name, is_overlay |-> is_overlay, phandle |-> phandle, at |-> at,
     parent |-> parent, children |-> <<>>, properties |-> <<>>,
     properties_span |-> <<-1, -1>>, node_span |-> <<-1, -1>>]

\* Faulty variant of AttachToParent: a node whose name a sibling already has is
\* merged into that sibling instead of being kept as a child of its own
AttachToParent_MergesByName(ns, n) ==
    IF ns[n].parent = NoNode THEN ns
    ELSE IF \E i \in 1 .. Len(ns[ns[n].parent].children) :
                ns[ns[ns[n].parent].children[i]].name = ns[n].name
         THEN ns
    ELSE [ns EXCEPT ![ns[n].parent].children = Append(@, n)]

\* self.parent = parent of NodeMixin: the new node n goes last in its parent's children
AttachToParent(ns, n) ==
    IF ns[n].parent = NoNode THEN ns
    ELSE [ns EXCEPT ![ns[n].parent].children = Append(@, n)]

\* the node list after constructing one more DeviceTreeNode
NewNode(ns, node) == AttachToParent(Append(ns, node), Len(ns) + 1)

set_properties_span_start(node, p) == [node EXCEPT !.properties_span[1] = p]
set_properties_span_end(node, p) == [node EXCEPT !.properties_span[2] = p]
set_node_span_start(node, p) == [node EXCEPT !.node_span[1] = p]
set_node_span_end(node, p) == [node EXCEPT !.node_span[2] = p]

\* PreOrderIter(n)
RECURSIVE PreOrderIter(_, _)
RECURSIVE PreOrderAll(_, _, _)
PreOrderAll(ns, list, i) ==
    IF i > Len(list) THEN <<>>
    ELSE PreOrderIter(ns, list[i]) \o PreOrderAll(ns, list, i + 1)

PreOrderIter(ns, n) == <<n>> \o PreOrderAll(ns, ns[n].children, 1)

\* the nodes in the order of "for root in root_nodes: for node in PreOrderIter(root)"
ExtractionOrder == PreOrderAll(nodes, root_nodes, 1)

(***************************************************************************)
(* The buffers the model parses: concatenations of at most MaxPieces       *)
(* pieces of device tree source                                            *)
(***************************************************************************)
PieceRoot == <<"/", " ", "{">>
PieceChild == <<"a", " ", "{">>
PieceLabelled == <<"l", ":", " ", "b", "@", "0", " ", "{">>
PieceOverlay == <<"&", "f", "o", "o", " ", "{">>
PieceClose == <<"}", ";">>
PieceBlankClose == <<" ", "}", ";">>
PieceString == <<"x", "=", "\"", "s", "\"", ";">>
PieceBytes == <<"y", "=", "[", "0", "x", "0", "1", " ", "0", "x", "0", "2", " ",
                "0", "x", "A", "A", "]", ";">>

Pieces == {PieceRoot, PieceChild, PieceLabelled, PieceOverlay, PieceClose,
           PieceBlankClose, PieceString, PieceBytes}

RECURSIVE Buffers(_)
Buffers(n) ==
    IF n = 0 THEN {<<>>}
    ELSE Buffers(n - 1) \cup {b \o p : b \in Buffers(n - 1), p \in Pieces}

(***************************************************************************)
(* parse_device_tree                                                       *)
(***************************************************************************)
Init ==
    /\ contents \in Buffers(MaxPieces)
    /\ pc = "start"
    /\ pos = 0
    /\ nodes = <<>>
    /\ current_node = NoNode
    /\ root_nodes = <<>>
    /\ prop_index = 1
    /\ mixed_default_value = <<>>
    /\ error = "none"
    /\ result = NoResult

Raise(e) ==
    /\ pc' = "error"
    /\ error' = e
    /\ UNCHANGED <<contents, pos, nodes, current_node, root_nodes, prop_index,
                   mixed_default_value, result>>

\* root_node = re.search(Regex.root_node, contents); node_scopes = re.finditer(...)
FindRootNode ==
    /\ pc = "start"
    /\ IF HasRootNode(contents)
       THEN /\ pc' = "scan"
            /\ UNCHANGED <<contents, pos, nodes, current_node, root_nodes, prop_index,
                           mixed_default_value, error, result>>
       ELSE Raise("ValueError")

match == NextScope(contents, pos)

\* the node as it leaves the open branch: both span starts at the end of the match
Opened(node, m) == set_node_span_start(set_properties_span_start(node, m.end), m.end)

\* an open whose name is '/': a new root, whatever current_node is
OpenRootNode ==
    /\ pc = "scan"
    /\ IsOpenMatch(match)
    /\ match.phandle_only = None
    /\ match.name = <<"/">>
    /\ nodes' = NewNode(nodes, Opened(DeviceTreeNode(match.name, FALSE, match.phandle,
                                                     match.at, NoNode), match))
    /\ current_node' = Len(nodes) + 1
    /\ root_nodes' = Append(root_nodes, Len(nodes) + 1)
    /\ pos' = match.end
    /\ UNCHANGED <<contents, pc, prop_index, mixed_default_value, error, result>>

\* an open that is neither the root nor an overlay: a child of current_node
OpenChildNode ==
    /\ pc = "scan"
    /\ IsOpenMatch(match)
    /\ match.phandle_only = None
    /\ match.name # <<"/">>
    /\ IF current_node = NoNode
       THEN Raise("AttributeError")
       ELSE LET closed == IF nodes[current_node].properties_span[2] = -1
                          THEN [nodes EXCEPT ![current_node] =
                                    set_properties_span_end(@, match.start)]
                          ELSE nodes
            IN  /\ nodes' = NewNode(closed, Opened(DeviceTreeNode(match.name, FALSE,
                                       match.phandle, match.at, current_node), match))
                /\ current_node' = Len(nodes) + 1
                /\ pos' = match.end
                /\ UNCHANGED <<contents, pc, root_nodes, prop_index,
                               mixed_default_value, error, result>>

\* Faulty variant of OpenOverlayNode: an overlay inside a node becomes its child
OpenOverlayNode_Nested ==
    /\ pc = "scan"
    /\ IsOpenMatch(match)
    /\ match.phandle_only # None
    /\ nodes' = NewNode(nodes, Opened(DeviceTreeNode(match.phandle_only, TRUE,
                                          None, None, current_node), match))
    /\ current_node' = Len(nodes) + 1
    /\ root_nodes' = IF current_node = NoNode
                     THEN Append(root_nodes, Len(nodes) + 1) ELSE root_nodes
    /\ pos' = match.end
    /\ UNCHANGED <<contents, pc, prop_index, mixed_default_value, error, result>>

\* an open that is only a reference: an overlay node, legal outside every node
OpenOverlayNode ==
    /\ pc = "scan"
    /\ IsOpenMatch(match)
    /\ match.phandle_only # None
    /\ IF current_node # NoNode
       THEN Raise("KeyError")
       ELSE /\ nodes' = NewNode(nodes, Opened(DeviceTreeNode(match.phandle_only, TRUE,
                                                  None, None, NoNode), match))
            /\ current_node' = Len(nodes) + 1
            /\ root_nodes' = Append(root_nodes, Len(nodes) + 1)
            /\ pos' = match.end
            /\ UNCHANGED <<contents, pc, prop_index, mixed_default_value, error, result>>

\* Faulty variant of CloseNode: a close with no node open is skipped
CloseNode_IgnoresUnmatched ==
    /\ pc = "scan"
    /\ IsCloseMatch(match)
    /\ IF current_node = NoNode
       THEN /\ pos' = match.end
            /\ UNCHANGED <<contents, pc, nodes, current_node, root_nodes, prop_index,
                           mixed_default_value, error, result>>
       ELSE LET n  == nodes[current_node]
                n1 == IF n.properties_span[2] = -1
                      THEN set_properties_span_end(n, match.start) ELSE n
            IN  /\ nodes' = [nodes EXCEPT ![current_node] = set_node_span_end(n1, match.start)]
                /\ current_node' = n.parent
                /\ pos' = match.end
                /\ UNCHANGED <<contents, pc, root_nodes, prop_index,
                               mixed_default_value, error, result>>

\* the close branch of the loop
CloseNode ==
    /\ pc = "scan"
    /\ IsCloseMatch(match)
    /\ IF current_node = NoNode
       THEN Raise("AttributeError")
       ELSE LET n  == nodes[current_node]
                n1 == IF n.properties_span[2] = -1
                      THEN set_properties_span_end(n, match.start) ELSE n
            IN  /\ nodes' = [nodes EXCEPT ![current_node] = set_node_span_end(n1, match.start)]
                /\ current_node' = n.parent
                /\ pos' = match.end
                /\ UNCHANGED <<contents, pc, root_nodes, prop_index,
                               mixed_default_value, error, result>>

\* the else branch of the loop: raise ValueError('deu ruim')
UnknownScope ==
    /\ pc = "scan"
    /\ match.ok
    /\ ~IsOpenMatch(match)
    /\ ~IsCloseMatch(match)
    /\ Raise("ValueError")

\* node_scopes is exhausted: the loop ends, whatever current_node is
EndOfScopes ==
    /\ pc = "scan"
    /\ ~match.ok
    /\ pc' = "properties"
    /\ UNCHANGED <<contents, pos, nodes, current_node, root_nodes, prop_index,
                   mixed_default_value, error, result>>

(***************************************************************************)
(* More string primitives                                                  *)
(***************************************************************************)
\* the offset of the first character of class C at or after p, Len(s) if none
RECURSIVE RunEndNot(_, _, _)
RunEndNot(s, p, C) ==
    IF p < Len(s) /\ At(s, p) \notin C THEN RunEndNot(s, p + 1, C) ELSE p

\* the offsets at which '$' matches: the end, and before a final line feed
DollarAt(s, e) == e = Len(s) \/ (e = Len(s) - 1 /\ IsAt(s, e, "\n"))

\* str.split(): the maximal runs of non-space characters, from offset p on
RECURSIVE SplitFrom(_, _)
SplitFrom(s, p) ==
    LET a == RunEnd(s, p, SpaceChars)
        b == RunEndNot(s, a, SpaceChars)
    IN  IF a >= Len(s) THEN <<>> ELSE <<Slice(s, a, b)>> \o SplitFrom(s, b)

Split(s) == SplitFrom(s, 0)

\* text_contents.count('\n')
RECURSIVE CountNewlines(_)
CountNewlines(s) ==
    IF s = <<>> THEN 0
    ELSE (IF s[1] = "\n" THEN 1 ELSE 0) + CountNewlines(Tail(s))

get_line_number(text_contents) ==
    IF Len(text_contents) = 0 THEN 0 ELSE 1 + CountNewlines(text_contents)

(***************************************************************************)
(* int(string, base) of Python for ASCII text: optional sign, optional     *)
(* base prefix, digits of the base with single underscores between them    *)
(***************************************************************************)
DigitValue(ch) ==
    CASE ch = "0" -> 0 [] ch = "1" -> 1 [] ch = "2" -> 2 [] ch = "3" -> 3
      [] ch = "4" -> 4 [] ch = "5" -> 5 [] ch = "6" -> 6 [] ch = "7" -> 7
      [] ch = "8" -> 8 [] ch = "9" -> 9
      [] ch \in {"a", "A"} -> 10 [] ch \in {"b", "B"} -> 11
      [] ch \in {"c", "C"} -> 12 [] ch \in {"d", "D"} -> 13
      [] ch \in {"e", "E"} -> 14 [] ch \in {"f", "F"} -> 15
      [] OTHER -> 99

IsDigitOf(ch, base) == ch \in (Digits \cup HexLetters) /\ DigitValue(ch) < base

NotAnInt == [ok |-> FALSE, value |-> 0]

\* the digits of s from p on, acc the value so far, after a digit or an underscore
RECURSIVE IntDigits(_, _, _, _, _)
IntDigits(s, p, base, acc, afterDigit) ==
    IF p >= Len(s) THEN (IF afterDigit THEN [ok |-> TRUE, value |-> acc] ELSE NotAnInt)
    ELSE IF IsDigitOf(At(s, p), base)
         THEN IntDigits(s, p + 1, base, acc * base + DigitValue(At(s, p)), TRUE)
    ELSE IF At(s, p) = "_" /\ afterDigit
         THEN IntDigits(s, p + 1, base, acc, FALSE)
    ELSE NotAnInt

HasPrefix(s, p, base) ==
    /\ IsAt(s, p, "0")
    /\ \/ base = 16 /\ (IsAt(s, p + 1, "x") \/ IsAt(s, p + 1, "X"))
       \/ base = 2 /\ (IsAt(s, p + 1, "b") \/ IsAt(s, p + 1, "B"))

PyInt(s, base) ==
    LET signed   == IsAt(s, 0, "+") \/ IsAt(s, 0, "-")
        p0       == IF signed THEN 1 ELSE 0
        prefixed == HasPrefix(s, p0, base)
        \* after a prefix the digits may start with one underscore
        body     == IF prefixed
                    THEN IntDigits(s, p0 + 2, base, 0, IsAt(s, p0 + 2, "_"))
                    ELSE IntDigits(s, p0, base, 0, FALSE)
        plain    == IF prefixed /\ ~body.ok
                    THEN IntDigits(s, p0, base, 0, FALSE) ELSE body
    IN  IF ~plain.ok THEN NotAnInt
        ELSE [ok |-> TRUE, value |-> IF IsAt(s, 0, "-") THEN 0 - plain.value ELSE plain.value]

(***************************************************************************)
(* Property values.  A value is a record with a kind; from_string returns  *)
(* [ok, raised, value, exception]: ok is a match, raised an exception, and *)
(* neither is the None that from_string returns without a match.           *)
(***************************************************************************)
NoValue == [kind |-> "None"]
Unmatched == [ok |-> FALSE, raised |-> FALSE, value |-> NoValue, exception |-> "none"]
Raised(e) == [ok |-> FALSE, raised |-> TRUE, value |-> NoValue, exception |-> e]
Matched(v) == [ok |-> TRUE, raised |-> FALSE, value |-> v, exception |-> "none"]

QuoteStop == {"\n", ";", "\""}

\* StringProperty.from_string: a quote, no line feed, semicolon or quote, a quote
StringProperty_from_string(s) ==
    LET q == RunEndNot(s, 1, QuoteStop)
    IN  IF IsAt(s, 0, "\"") /\ IsAt(s, q, "\"") /\ DollarAt(s, q + 1)
        THEN Matched([kind |-> "String", v |-> Slice(s, 1, q)])
        ELSE Unmatched

\* re_string_list from the quote at p on; acc holds the strings before it
RECURSIVE StringListFrom(_, _, _)
StringListFrom(s, p, acc) ==
    LET q    == RunEndNot(s, p + 1, QuoteStop)
        c    == RunEnd(s, q + 1, SpaceChars)
        n    == RunEnd(s, c + 1, SpaceChars)
        here == Append(acc, Slice(s, p + 1, q))
    IN  IF ~(IsAt(s, p, "\"") /\ IsAt(s, q, "\"")) THEN Unmatched
        ELSE IF IsAt(s, c, ",") /\ StringListFrom(s, n, here).ok
             THEN StringListFrom(s, n, here)
        ELSE IF DollarAt(s, q + 1) /\ Len(acc) >= 1
             THEN Matched([kind |-> "StringList", v |-> here])
        ELSE Unmatched

\* StringListProperty.from_string: two or more quoted strings joined by commas
StringListProperty_from_string(s) == StringListFrom(s, 0, <<>>)

\* Phandle.check_name: an ampersand and a run of [\w,.+\-], to the end
check_name(s) ==
    LET q == RunEnd(s, 1, NameChars)
    IN  IF IsAt(s, 0, "&") /\ q > 1 /\ DollarAt(s, q) THEN Slice(s, 0, q) ELSE None

\* AliasProperty.from_string(value), then AliasProperty(value) of the caller
AliasProperty_from_string(s) ==
    IF check_name(s) # None
    THEN Matched([kind |-> "Alias", v |-> check_name(s)])
    ELSE Unmatched

\* the conversion of the elements of BinaryProperty.from_string, from element i on
RECURSIVE BinaryElements(_, _)
BinaryElements(els, i) ==
    IF i > Len(els) THEN Matched(<<>>)
    ELSE LET el   == els[i]
             base == IF HasPrefix(el, 0, 16) THEN 16 ELSE 10
             n    == PyInt(el, base)
             rest == BinaryElements(els, i + 1)
         IN  IF ~n.ok THEN Raised("ValueError")
             ELSE IF ~rest.ok THEN rest
             ELSE Matched(<<n.value>> \o rest.value)

\* BinaryProperty.from_string: '[', one or more characters but ']', ']', spaces
BinaryProperty_from_string(s) ==
    LET q   == RunEndNot(s, 1, {"]"})
        els == BinaryElements(Split(Slice(s, 1, q)), 1)
    IN  IF IsAt(s, 0, "[") /\ q > 1 /\ IsAt(s, q, "]")
           /\ DollarAt(s, RunEnd(s, q + 1, SpaceChars))
        THEN (IF els.ok THEN Matched([kind |-> "Binary", v |-> els.value]) ELSE els)
        ELSE Unmatched

(***************************************************************************)
(* CellProperty and the classes of its elements                            *)
(***************************************************************************)
\* the decimal digits of a natural number (the {n} of an f-string)
RECURSIVE DecimalText(_)
DecimalText(n) ==
    LET d == <<"0", "1", "2", "3", "4", "5", "6", "7", "8", "9">>[(n % 10) + 1]
    IN  IF n < 10 THEN <<d>> ELSE Append(DecimalText(n \div 10), d)

StartsWithAt(s, p, pat) == p + Len(pat) <= Len(s) /\ Slice(s, p, p + Len(pat)) = pat

\* re.sub(re.escape(pat), rep, s): every occurrence of pat from p on, left to right
RECURSIVE ReplaceAllFrom(_, _, _, _)
ReplaceAllFrom(s, p, pat, rep) ==
    IF p >= Len(s) THEN <<>>
    ELSE IF StartsWithAt(s, p, pat) THEN rep \o ReplaceAllFrom(s, p + Len(pat), pat, rep)
    ELSE <<At(s, p)>> \o ReplaceAllFrom(s, p + 1, pat, rep)

\* Regex.multiline_comment at p: the offset past the comment, or -1.  After the
\* opener come groups of one character that is neither slash nor star, a run
\* without star and a run of stars; a slash ends the comment.
RECURSIVE CommentGroups(_, _)
CommentGroups(s, p) ==
    LET a == RunEndNot(s, p + 1, {"*"})
        b == RunEnd(s, a, {"*"})
    IN  IF IsAt(s, p, "/") THEN p + 1
        ELSE IF p < Len(s) /\ At(s, p) # "*" /\ b > a THEN CommentGroups(s, b)
        ELSE -1

CommentEnd(s, p) ==
    IF IsAt(s, p, "/") /\ IsAt(s, p + 1, "*") THEN CommentGroups(s, p + 2) ELSE -1

\* re.sub(Regex.multiline_comment, '', string)
RECURSIVE RemoveComments(_, _)
RemoveComments(s, p) ==
    IF p >= Len(s) THEN <<>>
    ELSE IF CommentEnd(s, p) # -1 THEN RemoveComments(s, CommentEnd(s, p))
    ELSE <<At(s, p)>> \o RemoveComments(s, p + 1)

\* the inner while of from_string: the offset past the parenthesis that closes
\* the one before p, or -1 when string[past_one_char] runs off the end (IndexError)
RECURSIVE PastClosing(_, _, _)
PastClosing(s, p, count) ==
    IF count = 0 THEN p
    ELSE IF p >= Len(s) THEN -1
    ELSE IF At(s, p) = ")" THEN PastClosing(s, p + 1, count - 1)
    ELSE IF At(s, p) = "(" THEN PastClosing(s, p + 1, count + 1)
    ELSE PastClosing(s, p + 1, count)

PlaceHolder(n) == <<"{", "{">> \o DecimalText(n) \o <<"}", "}">>

\* the outer while of from_string: [raised, string, place_holders], where
\* place_holders[n] is the text that the place holder {{n}} stands for
RECURSIVE ReplaceExpressions(_, _)
ReplaceExpressions(s, holders) ==
    LET open == RunEndNot(s, 0, {"("})
        past == PastClosing(s, open + 1, 1)
        expr == Slice(s, open, past)
    IN  IF open >= Len(s) THEN [raised |-> FALSE, string |-> s, place_holders |-> holders]
        ELSE IF past = -1 THEN [raised |-> TRUE, string |-> s, place_holders |-> holders]
        ELSE ReplaceExpressions(ReplaceAllFrom(s, 0, expr, PlaceHolder(Len(holders) + 1)),
                                Append(holders, expr))

\* the digits of a natural number in a base, upper case (the {n:X} and {n:b}
\* of an f-string)
RECURSIVE NaturalText(_, _)
NaturalText(n, base) ==
    LET d == <<"0", "1", "2", "3", "4", "5", "6", "7", "8", "9",
               "A", "B", "C", "D", "E", "F">>[(n % base) + 1]
    IN  IF n < base THEN <<d>> ELSE Append(NaturalText(n \div base, base), d)

\* the sign stands before the digits
FormatInt(n, base) ==
    IF n < 0 THEN <<"-">> \o NaturalText(0 - n, base) ELSE NaturalText(n, base)

\* Integer.__init__ for original in hex, dec, bin
Integer(integer_number, original) ==
    [kind |-> "Integer", value |-> integer_number, original_base |-> original,
     hex_str |-> <<"0", "x">> \o FormatInt(integer_number, 16),
     dec_str |-> FormatInt(integer_number, 10),
     bin_str |-> <<"0", "b">> \o FormatInt(integer_number, 2),
     original_string |->
         IF original = "hex" THEN <<"0", "x">> \o FormatInt(integer_number, 16)
         ELSE IF original = "dec" THEN FormatInt(integer_number, 10)
         ELSE <<"0", "b">> \o FormatInt(integer_number, 2)]

\* Integer.from_string: [ok, value]; not ok is the ValueError it raises
Integer_from_string(s) ==
    LET base == IF HasPrefix(s, 0, 16) THEN 16 ELSE IF HasPrefix(s, 0, 2) THEN 2 ELSE 10
        n    == PyInt(s, base)
    IN  IF n.ok
        THEN [ok |-> TRUE,
              value |-> Integer(n.value, IF base = 16 THEN "hex"
                                         ELSE IF base = 2 THEN "bin" ELSE "dec")]
        ELSE [ok |-> FALSE, value |-> NoValue]

\* CMacro.check_name: a letter or underscore, then one or more of [a-zA-Z0-9_]
CMacro_check_name(s) ==
    LET q == RunEnd(s, 1, WordChars)
    IN  IF Len(s) >= 1 /\ s[1] \in (UpperLetters \cup LowerLetters \cup {"_"})
           /\ q > 1 /\ DollarAt(s, q)
        THEN Slice(s, 0, q) ELSE None

\* re.finditer('[A-Z_][A-Z0-9_]+', string) of BinaryExpression.from_string
UpperWord == UpperLetters \cup Digits \cup {"_"}

RECURSIVE MacrosIn(_, _)
MacrosIn(s, p) ==
    LET q == RunEnd(s, p + 1, UpperWord)
    IN  IF p >= Len(s) THEN <<>>
        ELSE IF At(s, p) \in (UpperLetters \cup {"_"}) /\ q > p + 1
             THEN <<Slice(s, p, q)>> \o MacrosIn(s, q)
        ELSE MacrosIn(s, p + 1)

\* the key of place_holders that is el, 0 if there is none (KeyError)
HolderOf(el, holders) ==
    IF \E n \in 1 .. Len(holders) : el = PlaceHolder(n)
    THEN CHOOSE n \in 1 .. Len(holders) : el = PlaceHolder(n)
    ELSE 0

\* re.match('{{\d+}}', el)
LooksLikeHolder(el) ==
    LET q == RunEnd(el, 2, Digits)
    IN  IsAt(el, 0, "{") /\ IsAt(el, 1, "{") /\ q > 2 /\ IsAt(el, q, "}") /\ IsAt(el, q + 1, "}")

\* one element of a cell: Integer, else Phandle, else CMacro, else place holder
CellElement(el, holders) ==
    IF Integer_from_string(el).ok THEN Matched(Integer_from_string(el).value)
    ELSE IF check_name(el) # None THEN Matched([kind |-> "Phandle", name |-> check_name(el)])
    ELSE IF CMacro_check_name(el) # None
         THEN Matched([kind |-> "CMacro", name |-> CMacro_check_name(el)])
    ELSE IF LooksLikeHolder(el) /\ HolderOf(el, holders) # 0
         THEN Matched([kind |-> "BinaryExpression",
                       original_string |-> holders[HolderOf(el, holders)],
                       cmacros |-> MacrosIn(holders[HolderOf(el, holders)], 0)])
    ELSE IF LooksLikeHolder(el) THEN Raised("KeyError")
    ELSE Raised("ValueError")

RECURSIVE CellElements(_, _, _)
CellElements(els, i, holders) ==
    IF i > Len(els) THEN Matched(<<>>)
    ELSE LET e    == CellElement(els[i], holders)
             rest == CellElements(els, i + 1, holders)
         IN  IF ~e.ok THEN e
             ELSE IF ~rest.ok THEN rest
             ELSE Matched(<<e.value>> \o rest.value)

\* CellProperty.from_string
CellProperty_from_string(string) ==
    LET r    == ReplaceExpressions(RemoveComments(string, 0), <<>>)
        s    == r.string
        q    == RunEndNot(s, 1, {">"})
        els  == CellElements(Split(Slice(s, 1, q)), 1, r.place_holders)
    IN  IF r.raised THEN Raised("IndexError")
        ELSE IF IsAt(s, 0, "<") /\ q > 1 /\ IsAt(s, q, ">")
                /\ DollarAt(s, RunEnd(s, q + 1, SpaceChars))
             THEN (IF els.ok THEN Matched([kind |-> "Cell", v |-> els.value]) ELSE els)
        ELSE Unmatched

(***************************************************************************)
(* MixedProperty.  Every MixedProperty() that from_string builds holds the *)
(* one list object that is the default of the value parameter of __init__, *)
(* so a mixed value is a reference to mixed_default_value.                 *)
(***************************************************************************)
\* (?P<cell>...) of re_mixed_property at p: the offset past the match, or -1.
\* Items of an optional ampersand and a run of \w, spaces between, to the '>'.
RECURSIVE MixedCellItems(_, _)
MixedCellItems(s, p) ==
    LET w0 == IF IsAt(s, p, "&") THEN p + 1 ELSE p
        w1 == RunEnd(s, w0, WordChars)
        n  == RunEnd(s, w1, SpaceChars)
    IN  IF w1 = w0 THEN -1
        ELSE IF IsAt(s, n, ">") THEN n + 1
        ELSE MixedCellItems(s, n)

MixedCellEnd(s, p) ==
    IF IsAt(s, p, "<") THEN MixedCellItems(s, RunEnd(s, p + 1, SpaceChars)) ELSE -1

\* (?P<string>...) at p: a quoted string and the spaces after it
MixedStringEnd(s, p) ==
    LET q == RunEndNot(s, p + 1, QuoteStop)
    IN  IF IsAt(s, p, "\"") /\ IsAt(s, q, "\"") THEN RunEnd(s, q + 1, SpaceChars) ELSE -1

\* one token of the binary group between p and t: 0x and hex digits, or digits
IsByteToken(s, p, t) ==
    \/ \A i \in p .. t - 1 : At(s, i) \in Digits
    \/ /\ t - p >= 3
       /\ At(s, p) = "0"
       /\ At(s, p + 1) \in {"x", "X"}
       /\ \A i \in p + 2 .. t - 1 : At(s, i) \in (Digits \cup HexLetters)

\* one or more tokens, each followed by spaces, that fill s[p:stop]
RECURSIVE ByteTokens(_, _, _)
ByteTokens(s, p, stop) ==
    \E t \in p + 1 .. stop :
        /\ IsByteToken(s, p, t)
        /\ LET n == RunEnd(s, t, SpaceChars)
           IN  n = stop \/ (n < stop /\ ByteTokens(s, n, stop))

\* (?P<binary>...) at p
MixedBinaryEnd(s, p) ==
    LET stop == RunEndNot(s, p + 1, {"]"})
    IN  IF IsAt(s, p, "[") /\ stop < Len(s)
           /\ ByteTokens(s, RunEnd(s, p + 1, SpaceChars), stop)
        THEN stop + 1 ELSE -1

\* the value that the match at p appends: the sub-parser of the group that matched
MixedElement(s, p) ==
    IF MixedCellEnd(s, p) # -1
    THEN [end |-> MixedCellEnd(s, p),
          parsed |-> CellProperty_from_string(Slice(s, p, MixedCellEnd(s, p)))]
    ELSE IF MixedStringEnd(s, p) # -1
    THEN [end |-> MixedStringEnd(s, p),
          parsed |-> StringProperty_from_string(Slice(s, p, MixedStringEnd(s, p)))]
    ELSE IF MixedBinaryEnd(s, p) # -1
    THEN [end |-> MixedBinaryEnd(s, p),
          parsed |-> BinaryProperty_from_string(Slice(s, p, MixedBinaryEnd(s, p)))]
    ELSE [end |-> -1, parsed |-> Unmatched]

\* the loop of MixedProperty.from_string from offset p on: list is the shared
\* list after the appends; a sub-parser that returns None appends None
RECURSIVE MixedFrom(_, _, _)
\* the body of the loop for the match m found at or after p
MixedAppend(s, p, list, m) ==
    IF m.end = -1 THEN MixedFrom(s, p + 1, list)
    ELSE IF m.parsed.raised
         THEN [raised |-> TRUE, exception |-> m.parsed.exception, list |-> list]
    ELSE MixedFrom(s, m.end, Append(list, m.parsed.value))

MixedFrom(s, p, list) ==
    IF p >= Len(s) THEN [raised |-> FALSE, exception |-> "none", list |-> list]
    ELSE MixedAppend(s, p, list, MixedElement(s, p))

\* MixedProperty.from_string: never None
MixedProperty_from_string(s, list) == MixedFrom(s, 0, list)

(***************************************************************************)
(* The property extraction pass of parse_device_tree                       *)
(***************************************************************************)
ValueElement(value, line_number, key_span, value_span) ==
    [value |-> value, file_path |-> "file_path", line_number |-> line_number,
     single_line |-> Len(line_number) = 1, key_span |-> key_span,
     value_span |-> value_span]

\* DeviceTreeNodeProperty.__init__
DeviceTreeNodeProperty(name, value, line_number, key_span, value_span) ==
    [name |-> name, value |-> value,
     history_list |-> <<ValueElement(value, line_number, key_span, value_span)>>]

HasProperty(properties, name) == \E i \in 1 .. Len(properties) : properties[i].name = name

\* the state of the pass over one node: the node's properties, the shared list
\* of MixedProperty, and the exception that ended the pass, if any
PassState(properties, list, exception) ==
    [properties |-> properties, list |-> list, exception |-> exception]

\* DeviceTreeNode.add_property
add_property(st, name, value, line_number, key_span, value_span) ==
    IF HasProperty(st.properties, name)
    THEN PassState(st.properties, st.list, "KeyError")
    ELSE PassState(Append(st.properties,
                          DeviceTreeNodeProperty(name, value, line_number, key_span,
                                                 value_span)),
                   st.list, "none")

\* the key/value pattern at p: a key of [\w,.+?#\-], spaces, '=', spaces, a value
\* of one or more characters but ';', and ';'.  When only spaces stand between
\* '=' and ';', the value is the last of them.
KeyValueAt(s, p) ==
    LET k1 == RunEnd(s, p, PropertyNameChars)
        eq == RunEnd(s, k1, SpaceChars)
        v0 == RunEnd(s, eq + 1, SpaceChars)
        semi == RunEndNot(s, eq + 1, {";"})
        vs == IF v0 < semi THEN v0 ELSE semi - 1
    IN  IF k1 > p /\ IsAt(s, eq, "=") /\ semi < Len(s) /\ semi > eq + 1
        THEN [ok |-> TRUE, key_start |-> p, key_end |-> k1, value_start |-> vs,
              value_end |-> semi, end |-> semi + 1]
        ELSE [ok |-> FALSE, key_start |-> 0, key_end |-> 0, value_start |-> 0,
              value_end |-> 0, end |-> 0]

\* the first of the from_string results that is not None, in the order of the
\* source; the MixedProperty is the last resort and is never None
FirstTyped(str, strs, cell, alias, mixed, list) ==
    IF str.ok THEN [value |-> str.value, list |-> list, exception |-> "none"]
    ELSE IF strs.ok THEN [value |-> strs.value, list |-> list, exception |-> "none"]
    ELSE IF cell.raised THEN [value |-> NoValue, list |-> list, exception |-> cell.exception]
    ELSE IF cell.ok THEN [value |-> cell.value, list |-> list, exception |-> "none"]
    ELSE IF alias.ok THEN [value |-> alias.value, list |-> list, exception |-> "none"]
    ELSE [value |-> [kind |-> "Mixed"], list |-> mixed.list, exception |-> mixed.exception]

\* the chain of from_string calls on one value
Classify(value, list) ==
    FirstTyped(StringProperty_from_string(value),
               StringListProperty_from_string(value),
               CellProperty_from_string(value),
               AliasProperty_from_string(value),
               MixedProperty_from_string(value, list), list)

\* the loop over key_value_property, from offset p of properties_lines on
RECURSIVE KeyValuesFrom(_, _, _, _, _)
\* node.add_property for the match m, whose value classified as c
KeyValueAdd(lines, carret, offset, st, m, c) ==
    add_property(PassState(st.properties, c.list, "none"),
                 Slice(lines, m.key_start, m.key_end), c.value,
                 <<offset + get_line_number(Slice(lines, 0, m.key_start)) - 1,
                   offset + get_line_number(Slice(lines, 0, m.value_end - 1)) - 1>>,
                 <<m.key_start + carret, m.key_end + carret>>,
                 <<m.value_start + carret, m.value_end + carret>>)

\* the rest of the loop after the property of the match m was added
KeyValueAdded(lines, carret, offset, m, added) ==
    IF added.exception # "none" THEN added
    ELSE KeyValuesFrom(lines, m.end, carret, offset, added)

\* the body of the loop for the match m, whose value classified as c
KeyValueTyped(lines, carret, offset, st, m, c) ==
    IF c.exception # "none" THEN PassState(st.properties, c.list, c.exception)
    ELSE KeyValueAdded(lines, carret, offset, m,
                       KeyValueAdd(lines, carret, offset, st, m, c))

\* the next match m of the pattern, at p or after it
KeyValueMatch(lines, p, carret, offset, st, m) ==
    IF ~m.ok THEN KeyValuesFrom(lines, p + 1, carret, offset, st)
    ELSE KeyValueTyped(lines, carret, offset, st, m,
                       Classify(Slice(lines, m.value_start, m.value_end), st.list))

KeyValuesFrom(lines, p, carret, offset, st) ==
    IF p >= Len(lines) THEN st
    ELSE KeyValueMatch(lines, p, carret, offset, st, KeyValueAt(lines, p))

\* the empty property pattern at p: a line feed, spaces, a name and ';'
EmptyAt(s, p) ==
    LET a == RunEnd(s, p + 1, SpaceChars)
        b == RunEnd(s, a, PropertyNameChars)
    IN  IF IsAt(s, p, "\n") /\ b > a /\ IsAt(s, b, ";")
        THEN [ok |-> TRUE, name_start |-> a, name_end |-> b, end |-> b + 1]
        ELSE [ok |-> FALSE, name_start |-> 0, name_end |-> 0, end |-> 0]

\* the loop over empty_property
RECURSIVE EmptiesFrom(_, _, _, _, _)
EmptiesFrom(lines, p, carret, offset, st) ==
    LET m  == EmptyAt(lines, p)
        ln == <<offset + get_line_number(Slice(lines, 0, m.name_start)) - 1,
                offset + get_line_number(Slice(lines, 0, m.name_end - 1)) - 1>>
        span == <<m.name_start + carret, m.name_end + carret>>
        added == add_property(st, Slice(lines, m.name_start, m.name_end),
                              [kind |-> "Empty"], ln, span, span)
    IN  IF p >= Len(lines) THEN st
        ELSE IF ~m.ok THEN EmptiesFrom(lines, p + 1, carret, offset, st)
        ELSE IF added.exception # "none" THEN added
        ELSE EmptiesFrom(lines, m.end, carret, offset, added)

\* the empty properties of a node, after its key/value properties kv
EmptiesAfter(lines, carret, offset, kv) ==
    IF kv.exception # "none" THEN kv
    ELSE EmptiesFrom(lines, 0, carret, offset, kv)

\* the two loops over the text lines of a node
PropertiesIn(lines, carret, offset, st) ==
    EmptiesAfter(lines, carret, offset, KeyValuesFrom(lines, 0, carret, offset, st))

\* the body of "for node in PreOrderIter(root)" for one node
PropertiesOf(node, list) ==
    PropertiesIn(Slice(contents, node.properties_span[1], node.properties_span[2]),
                 node.properties_span[1],
                 get_line_number(Slice(contents, 0, node.properties_span[1] - 1)),
                 PassState(node.properties, list, "none"))

\* the properties st found for node n; an exception leaves what was added before it
StoreProperties(n, st) ==
    /\ nodes' = [nodes EXCEPT ![n].properties = st.properties]
    /\ mixed_default_value' = st.list
    /\ IF st.exception = "none"
       THEN /\ prop_index' = prop_index + 1
            /\ UNCHANGED <<pc, error>>
       ELSE /\ pc' = "error"
            /\ error' = st.exception
            /\ UNCHANGED prop_index

\* one node of the extraction pass
NodeProperties(n) == StoreProperties(n, PropertiesOf(nodes[n], mixed_default_value))

ExtractProperties ==
    /\ pc = "properties"
    /\ prop_index <= Len(ExtractionOrder)
    /\ NodeProperties(ExtractionOrder[prop_index])
    /\ UNCHANGED <<contents, pos, current_node, root_nodes, result>>

\* return root_nodes
ReturnRootNodes ==
    /\ pc = "properties"
    /\ prop_index > Len(ExtractionOrder)
    /\ pc' = "done"
    /\ result' = [returned |-> TRUE, root_nodes |-> root_nodes]
    /\ UNCHANGED <<contents, pos, nodes, current_node, root_nodes, prop_index,
                   mixed_default_value, error>>

Next ==
    \/ FindRootNode
    \/ OpenRootNode
    \/ OpenChildNode
    \/ OpenOverlayNode
    \/ CloseNode
    \/ UnknownScope
    \/ EndOfScopes
    \/ ExtractProperties
    \/ ReturnRootNodes

Spec == Init /\ [][Next]_vars

(***************************************************************************)
(* Properties                                                              *)
(***************************************************************************)
NodeIds == 1 .. Len(nodes)

\* a match of the close alternative of the scanner's pattern
IsCloseEvent(m) == m.ok /\ ~IsOpenMatch(m)

\* a match of the overlay alternative, a match of the named alternative
IsOverlayOpen(m) == IsOpenMatch(m) /\ m.phandle_only # None
IsNamedOpen(m) == IsOpenMatch(m) /\ m.phandle_only = None

\* an exception ends parse_device_tree: nothing is returned, nothing follows
FailureIsFinal == [](pc = "error" => ~result.returned) /\ [][pc # "error"]_vars

\* C1: when parse_device_tree returns, no node is still open: current_node is
\* None and every node has the end of its node span and of its property block
\* span set.  (The code returns the tree of a buffer that ends inside a node.)
C1_NoNodeOpenAtReturn ==
    result.returned =>
        /\ current_node = NoNode
        /\ \A n \in NodeIds : /\ nodes[n].node_span[2] # -1
                              /\ nodes[n].properties_span[2] # -1

\* C2: a close that arrives when no node is open makes the parse fail with an
\* exception, and a failed parse returns no tree.
C2_UnmatchedCloseFails ==
    /\ [][(pc = "scan" /\ IsCloseEvent(match) /\ current_node = NoNode)
            => (pc' = "error" /\ error' # "none" /\ ~result'.returned)]_vars
    /\ FailureIsFinal

\* the parse failed on a close that follows the close of the root node
C2_Witness ==
    /\ pc = "error"
    /\ error = "AttributeError"
    /\ IsCloseEvent(match)
    /\ current_node = NoNode
    /\ Len(root_nodes) = 1
    /\ nodes[root_nodes[1]].node_span[2] # -1

\* C3: in every returned tree, for every node, node span start <= property
\* block start <= property block end <= node span end, none of them negative.
\* (Fails on the trees that C1 shows are returned with a node left open.)
C3_SpansNested ==
    result.returned =>
        \A n \in NodeIds :
            /\ 0 <= nodes[n].node_span[1]
            /\ nodes[n].node_span[1] <= nodes[n].properties_span[1]
            /\ nodes[n].properties_span[1] <= nodes[n].properties_span[2]
            /\ nodes[n].properties_span[2] <= nodes[n].node_span[2]

\* C4: every open of a named node, whatever the name, makes a node that is the
\* last child of the node open at that moment, and a new root exactly when no
\* node is open.  (The code makes every '/' a parentless root, and fails on any
\* other name when no node is open.)
C4_OpenAttachesToCurrentNode ==
    [][(pc = "scan" /\ IsNamedOpen(match))
        => /\ pc' = "scan"
           /\ Len(nodes') = Len(nodes) + 1
           /\ nodes'[Len(nodes) + 1].parent = current_node
           /\ current_node # NoNode =>
                 /\ Last(nodes'[current_node].children) = Len(nodes) + 1
                 /\ root_nodes' = root_nodes
           /\ current_node = NoNode => root_nodes' = Append(root_nodes, Len(nodes) + 1)]_vars

\* the nodes whose parent is p, in the order of their opens in the buffer
OpenedUnder(p) ==
    SelectSeq([n \in NodeIds |-> n], LAMBDA n : nodes[n].parent = p)

\* C5: the children of every node are exactly the nodes opened under it, in the
\* order of their opens in the buffer, also when two of them have the same name.
C5_ChildrenInOpenOrder ==
    /\ \A p \in NodeIds : nodes[p].children = OpenedUnder(p)
    /\ \A m, n \in NodeIds : m < n => nodes[m].node_span[1] < nodes[n].node_span[1]

\* a returned tree in which two children of one node have the same name
C5_Witness ==
    /\ result.returned
    /\ \E p \in NodeIds :
         \E i, j \in 1 .. Len(nodes[p].children) :
            /\ i < j
            /\ nodes[nodes[p].children[i]].name = nodes[nodes[p].children[j]].name

\* C6: every close, with or without blanks before it, closes the node that is
\* open.  (The code raises ValueError on a close that blanks precede.)
C6_EveryCloseClosesCurrentNode ==
    [][(pc = "scan" /\ IsCloseEvent(match) /\ current_node # NoNode)
        => /\ pc' = "scan"
           /\ current_node' = nodes[current_node].parent
           /\ nodes'[current_node].node_span[2] # -1]_vars

\* C7: an overlay open outside every node makes a root that is an overlay, has
\* no label, no unit address and no parent, and is named by the reference with
\* its ampersand.  (The code names it by the reference without the ampersand.)
C7_OverlayNamedWithAmpersand ==
    [][(pc = "scan" /\ IsOverlayOpen(match) /\ current_node = NoNode)
        => /\ Len(nodes') = Len(nodes) + 1
           /\ root_nodes' = Append(root_nodes, Len(nodes) + 1)
           /\ nodes'[Len(nodes) + 1].is_overlay
           /\ nodes'[Len(nodes) + 1].phandle = None
           /\ nodes'[Len(nodes) + 1].at = None
           /\ nodes'[Len(nodes) + 1].parent = NoNode
           /\ nodes'[Len(nodes) + 1].name = <<"&">> \o match.phandle_only]_vars

C9_AtMostOneSlashRoot ==
    result.returned =>
        /\ Cardinality({i \in 1 .. Len(result.root_nodes) :
                           nodes[result.root_nodes[i]].name = <<"/">>}) <= 1
        /\ \A i \in 1 .. Len(result.root_nodes) :
              nodes[result.root_nodes[i]].name # <<"/">>
                  => nodes[result.root_nodes[i]].is_overlay

\* the text of the value of a property, by the value span of its first record
ValueText(property) ==
    Slice(contents, property.history_list[1].value_span[1],
          property.history_list[1].value_span[2])

\* C10: a property whose whole value is one bracketed list of byte tokens is
\* stored as a BinaryProperty of those bytes.  (The code stores a MixedProperty.)
C10_ByteListStoredAsBinary ==
    result.returned =>
        \A n \in NodeIds :
            \A i \in 1 .. Len(nodes[n].properties) :
                LET property == nodes[n].properties[i]
                    bytes    == BinaryProperty_from_string(ValueText(property))
                IN  bytes.ok => /\ property.value.kind = "Binary"
                                /\ property.value.v = bytes.value.v

(***************************************************************************)
(* CellProperty.from_string called on its own: contents is the string      *)
(* given, result what the call returns (not ok is None), error what it     *)
(* raises.                                                                 *)
(***************************************************************************)
MaxTokens == 4

\* the tokens of a cell: a hex, a binary and a decimal literal, a reference, a
\* macro of three characters and one of one character, an expression in
\* parentheses, and a token of none of these classes
CellTokens == {<<"0", "x", "0", "1">>, <<"0", "b", "1", "1">>, <<"7">>,
               <<"&", "f", "o", "o">>, <<"B", "A", "R">>, <<"A">>,
               <<"(", "B", "A", "Z", " ", "|", " ", "0", "x", "2", ")">>, <<"$">>}

\* one to n tokens with one space between them
RECURSIVE CellBodies(_)
CellBodies(n) ==
    IF n = 1 THEN CellTokens
    ELSE CellBodies(n - 1) \cup {b \o <<" ">> \o t : b \in CellBodies(n - 1), t \in CellTokens}

InitCell ==
    /\ contents \in {<<"<">> \o b \o <<">">> : b \in CellBodies(MaxTokens)}
    /\ pc = "start"
    /\ pos = 0
    /\ nodes = <<>>
    /\ current_node = NoNode
    /\ root_nodes = <<>>
    /\ prop_index = 1
    /\ mixed_default_value = <<>>
    /\ error = "none"
    /\ result = Unmatched

\* what the call returned, or the exception it raised
Returned(r) ==
    IF r.raised THEN Raise(r.exception)
    ELSE /\ pc' = "done"
         /\ result' = r
         /\ UNCHANGED <<contents, pos, nodes, current_node, root_nodes, prop_index,
                        mixed_default_value, error>>

CellFromString ==
    /\ pc = "start"
    /\ Returned(CellProperty_from_string(contents))

SpecCell == InitCell /\ [][CellFromString]_vars

\* the tokens of a cell as C11 reads them: the text between the angle brackets
\* cut at the spaces that stand outside parentheses
RECURSIVE ClaimTokensFrom(_, _, _, _)
ClaimTokensFrom(s, p, depth, token) ==
    IF p >= Len(s) - 1 THEN (IF token = <<>> THEN <<>> ELSE <<token>>)
    ELSE IF At(s, p) = " " /\ depth = 0
         THEN (IF token = <<>> THEN <<>> ELSE <<token>>) \o ClaimTokensFrom(s, p + 1, 0, <<>>)
    ELSE ClaimTokensFrom(s, p + 1,
                         IF At(s, p) = "(" THEN depth + 1
                         ELSE IF At(s, p) = ")" THEN depth - 1 ELSE depth,
                         Append(token, At(s, p)))

ClaimTokens(s) == ClaimTokensFrom(s, 1, 0, <<>>)

AllIn(t, from, C) == \A i \in from .. Len(t) : t[i] \in C

IsIdentifier(t, from) ==
    /\ Len(t) >= from
    /\ t[from] \in (UpperLetters \cup LowerLetters \cup {"_"})
    /\ AllIn(t, from, WordChars)

\* the class C11 gives a token, and the radix of a numeric literal
ClaimBase(t) ==
    IF Len(t) > 2 /\ t[1] = "0" /\ t[2] \in {"x", "X"} /\ AllIn(t, 3, Digits \cup HexLetters)
    THEN "hex"
    ELSE IF Len(t) > 2 /\ t[1] = "0" /\ t[2] \in {"b", "B"} /\ AllIn(t, 3, {"0", "1"})
    THEN "bin"
    ELSE IF Len(t) > 0 /\ AllIn(t, 1, Digits) THEN "dec"
    ELSE "none"

ClaimKind(t) ==
    IF t[1] = "(" /\ t[Len(t)] = ")" THEN "BinaryExpression"
    ELSE IF ClaimBase(t) # "none" THEN "Integer"
    ELSE IF t[1] = "&" /\ IsIdentifier(t, 2) THEN "Phandle"
    ELSE IF IsIdentifier(t, 1) THEN "CMacro"
    ELSE "none"

\* the element of the cell is the one C11 gives the token
ElementIs(e, t) ==
    /\ e.kind = ClaimKind(t)
    /\ e.kind = "Integer" => e.original_base = ClaimBase(t)
    /\ e.kind \in {"Phandle", "CMacro"} => e.name = t
    /\ e.kind = "BinaryExpression" => e.original_string = t

\* C11: CellProperty.from_string classifies every token of <tok ... tok> as
\* Integer if it is a numeric literal, else as phandle reference if it is
\* &identifier, else as macro reference if it is a C identifier of any length
\* from one character, else the parse fails; every parenthesized
\* sub-expression becomes one expression element in its place.
C11_CellTokensClassified ==
    pc # "start" =>
        LET toks == ClaimTokens(contents)
        IN  IF \A i \in 1 .. Len(toks) : ClaimKind(toks[i]) # "none"
            THEN /\ pc = "done"
                 /\ result.ok
                 /\ result.value.kind = "Cell"
                 /\ Len(result.value.v) = Len(toks)
                 /\ \A i \in 1 .. Len(toks) : ElementIs(result.value.v[i], toks[i])
            ELSE pc = "error"

(***************************************************************************)
(* parse_device_tree on buffers of one node header, the statements of its  *)
(* property block and the closes after them                                *)
(***************************************************************************)
MaxStatements == 3

\* the statements of a block: a string, a byte list, a mixed value, a value of
\* no known type, a cell over two lines, a marker on a line of its own and a
\* marker on the line of what stands before it
Statements == {PieceString, PieceBytes,
               <<"m", "=", "\"", "a", "\"", ",", "<", "1", ">", ";">>,
               <<"z", "=", "@", ";">>,
               <<"c", "=", "<", "1", "\n", "2", ">", ";">>,
               <<"\n", "x", ";">>,
               <<" ", "w", ";">>}

\* a root node, a child of the root node, an overlay node after the root node
Heads == {PieceRoot, PieceRoot \o PieceChild, PieceRoot \o PieceClose \o PieceOverlay}

Tails == {<<>>, PieceClose, PieceBlankClose, PieceClose \o PieceClose}

\* up to n statements, one after the other
RECURSIVE Blocks(_)
Blocks(n) ==
    IF n = 0 THEN {<<>>}
    ELSE Blocks(n - 1) \cup {b \o st : b \in Blocks(n - 1), st \in Statements}

InitStatements ==
    /\ contents \in {h \o b \o t : h \in Heads, b \in Blocks(MaxStatements), t \in Tails}
    /\ pc = "start"
    /\ pos = 0
    /\ nodes = <<>>
    /\ current_node = NoNode
    /\ root_nodes = <<>>
    /\ prop_index = 1
    /\ mixed_default_value = <<>>
    /\ error = "none"
    /\ result = NoResult

SpecStatements == InitStatements /\ [][Next]_vars

\* the mixed grammar as C12 reads it: matches of the string, cell and byte
\* list sub-grammars that cover the text from p on, with commas and spaces
\* between them; found says that there was a match before p
RECURSIVE CoveredByMixed(_, _, _)
CoveredByMixed(s, p, found) ==
    IF p >= Len(s) THEN found
    ELSE IF At(s, p) \in (SpaceChars \cup {","}) THEN CoveredByMixed(s, p + 1, found)
    ELSE IF MixedElement(s, p).end = -1 THEN FALSE
    ELSE CoveredByMixed(s, MixedElement(s, p).end, TRUE)

\* the text matches the grammar of the variant
MatchesGrammar(kind, text) ==
    CASE kind = "String" -> StringProperty_from_string(text).ok
      [] kind = "StringList" -> StringListProperty_from_string(text).ok
      [] kind = "Cell" -> CellProperty_from_string(text).ok
      [] kind = "Binary" -> BinaryProperty_from_string(text).ok
      [] kind = "Alias" -> AliasProperty_from_string(text).ok
      [] kind = "Mixed" -> CoveredByMixed(text, 0, FALSE)
      [] OTHER -> FALSE

StoredWithValue ==
    {<<n, i>> \in NodeIds \X (1 .. MaxStatements) :
        /\ i <= Len(nodes[n].properties)
        /\ nodes[n].properties[i].value.kind # "Empty"}

\* C12: the value of every key = value statement is stored as a variant whose
\* grammar its text matches; a value that matches none of the string, string
\* list, cell, byte list, alias and mixed grammars is never stored as a
\* property (the parse fails instead).
C12_StoredValueMatchesItsGrammar ==
    \A e \in StoredWithValue :
        MatchesGrammar(nodes[e[1]].properties[e[2]].value.kind,
                       ValueText(nodes[e[1]].properties[e[2]]))

(***************************************************************************)
(* Integer.from_string and repr called on their own: contents is the       *)
(* string given, result the Integer that from_string returns and the text  *)
(* that repr returns for it                                                *)
(***************************************************************************)
MaxLiteral == 4

\* the strings of one to n characters of 0, 1, 9, f, F, x and b
RECURSIVE Literals(_)
Literals(n) ==
    IF n = 1 THEN {<<ch>> : ch \in {"0", "1", "9", "f", "F", "x", "b"}}
    ELSE Literals(n - 1) \cup {l \o <<ch>> : l \in Literals(n - 1),
                                             ch \in {"0", "1", "9", "f", "F", "x", "b"}}

InitInteger ==
    /\ contents \in Literals(MaxLiteral)
    /\ pc = "start"
    /\ pos = 0
    /\ nodes = <<>>
    /\ current_node = NoNode
    /\ root_nodes = <<>>
    /\ prop_index = 1
    /\ mixed_default_value = <<>>
    /\ error = "none"
    /\ result = [integer |-> NoValue, repr |-> None]

\* the Integer that from_string returned, or its ValueError
IntegerReturned(i) ==
    IF ~i.ok THEN Raise("ValueError")
    ELSE /\ pc' = "parsed"
         /\ result' = [integer |-> i.value, repr |-> None]
         /\ UNCHANGED <<contents, pos, nodes, current_node, root_nodes, prop_index,
                        mixed_default_value, error>>

IntegerFromString ==
    /\ pc = "start"
    /\ IntegerReturned(Integer_from_string(contents))

\* Integer.__repr__
IntegerRepr ==
    /\ pc = "parsed"
    /\ pc' = "done"
    /\ result' = [result EXCEPT !.repr = result.integer.original_string]
    /\ UNCHANGED <<contents, pos, nodes, current_node, root_nodes, prop_index,
                   mixed_default_value, error>>

NextInteger ==
    \/ IntegerFromString
    \/ IntegerRepr

SpecInteger == InitInteger /\ [][NextInteger]_vars

\* the value of the digits of t from its i-th character on, in a radix
RECURSIVE ClaimMagnitude(_, _, _, _)
ClaimMagnitude(t, i, radix, acc) ==
    IF i > Len(t) THEN acc
    ELSE ClaimMagnitude(t, i + 1, radix, acc * radix + DigitValue(t[i]))

ClaimValue(t) ==
    IF ClaimBase(t) = "hex" THEN ClaimMagnitude(t, 3, 16, 0)
    ELSE IF ClaimBase(t) = "bin" THEN ClaimMagnitude(t, 3, 2, 0)
    ELSE ClaimMagnitude(t, 1, 10, 0)

\* C13: for every valid hex, decimal or binary literal Integer.from_string
\* stores the magnitude and the radix of the literal, and rendering the
\* Integer gives back the literal as it was written, leading zeros and digit
\* case included.
C13_IntegerRoundTrip ==
    ClaimBase(contents) # "none" =>
        /\ pc # "error"
        /\ pc \in {"parsed", "done"} =>
              /\ result.integer.value = ClaimValue(contents)
              /\ result.integer.original_base = ClaimBase(contents)
        /\ pc = "done" => result.repr = contents

(***************************************************************************)
(* Properties of the statements of a property block (SpecStatements)       *)
(***************************************************************************)
\* the property block of a node whose block has an end
BlockOf(n) == Slice(contents, nodes[n].properties_span[1], nodes[n].properties_span[2])

\* the offset of the first of the spaces that stand before p
RECURSIVE BackOverSpaces(_, _)
BackOverSpaces(s, p) ==
    IF p > 0 /\ At(s, p - 1) \in SpaceChars THEN BackOverSpaces(s, p - 1) ELSE p

\* a statement starts at p: only spaces stand between p and the start of the
\* block or the semicolon of the statement before
StartsStatement(s, p) ==
    /\ p < Len(s)
    /\ At(s, p) \in PropertyNameChars
    /\ BackOverSpaces(s, p) = 0 \/ At(s, BackOverSpaces(s, p) - 1) = ";"

\* a bare key; statement starts at p
IsMarkerAt(s, p) ==
    StartsStatement(s, p) /\ IsAt(s, RunEnd(s, p, PropertyNameChars), ";")

\* node n holds the marker property of the bare statement at p of its block
HoldsMarker(n, p) ==
    LET q    == RunEnd(BlockOf(n), p, PropertyNameChars)
        span == <<p + nodes[n].properties_span[1], q + nodes[n].properties_span[1]>>
    IN  \E i \in 1 .. Len(nodes[n].properties) :
            /\ nodes[n].properties[i].name = Slice(BlockOf(n), p, q)
            /\ nodes[n].properties[i].value.kind = "Empty"
            /\ nodes[n].properties[i].history_list[1].key_span = span
            /\ nodes[n].properties[i].history_list[1].value_span = span

\* C14: every bare key; statement of a node's property block is added to the
\* node as a marker property whose value span is its key span, wherever the
\* statement stands: on a line of its own, on the line of the opening brace,
\* or after another statement on the same line.
C14_EveryMarkerAdded ==
    result.returned =>
        \A n \in NodeIds :
            nodes[n].properties_span[2] # -1 =>
                \A p \in 0 .. Len(BlockOf(n)) - 1 :
                    IsMarkerAt(BlockOf(n), p) => HoldsMarker(n, p)

\* a key = value statement starts at p
IsAssignmentAt(s, p) ==
    /\ StartsStatement(s, p)
    /\ IsAt(s, RunEnd(s, RunEnd(s, p, PropertyNameChars), SpaceChars), "=")

\* the key of the statement that starts at p
KeyAt(s, p) == Slice(s, p, RunEnd(s, p, PropertyNameChars))

\* the offsets of the block of node n at which a statement starts
StatementsOf(n) ==
    {p \in 0 .. Len(BlockOf(n)) - 1 :
        IsMarkerAt(BlockOf(n), p) \/ IsAssignmentAt(BlockOf(n), p)}

AssignedTwice(n) ==
    \E p, q \in StatementsOf(n) : p < q /\ KeyAt(BlockOf(n), p) = KeyAt(BlockOf(n), q)

UniqueNames(properties) ==
    \A i, j \in 1 .. Len(properties) : properties[i].name = properties[j].name => i = j

\* C15: when a key is assigned twice in the property block of a node (two
\* key = value statements, two markers, or one of each) the parse returns no
\* tree, and the names of the properties of a node are unique.
C15_DuplicateKeyFails ==
    /\ \A n \in NodeIds : UniqueNames(nodes[n].properties)
    /\ result.returned =>
           \A n \in NodeIds : nodes[n].properties_span[2] # -1 => ~AssignedTwice(n)

(***************************************************************************)
(* The methods of DeviceTreeNode and DeviceTreeNodeProperty called by a    *)
(* user of the module on one node: nodes[1] is the node, result the call   *)
(* made last and error the exception that it raised.  _properties is the   *)
(* sequence of its entries in insertion order; the field name of an entry  *)
(* is its key.                                                             *)
(***************************************************************************)
MaxHistory == 3

PropertyNames == {<<"x">>, <<"w">>}

\* the values given to add_property and set_value
PropertyValues == {[kind |-> "String", v |-> <<"s">>], [kind |-> "String", v |-> <<"t">>],
                   [kind |-> "Empty"]}

\* the values given to modify_property, of type Union[str, None]
PlainValues == {[kind |-> "str", v |-> <<"s">>], NoValue}

Call(method, name, value) == [call |-> method, name |-> name, value |-> value]

\* the index of the entry of a key
EntryOf(properties, name) ==
    CHOOSE i \in 1 .. Len(properties) : properties[i].name = name

\* the entry is a DeviceTreeNodeProperty, not a value put there by modify_property
IsPropertyObject(entry) == "history_list" \in DOMAIN entry

\* dict.pop(name)
Pop(properties, name) ==
    SelectSeq(properties, LAMBDA entry : entry.name # name)

\* DeviceTreeNode.modify_property: the entry becomes the value itself
modify_property(properties, name, value) ==
    IF ~HasProperty(properties, name)
    THEN [properties |-> properties, exception |-> "KeyError"]
    ELSE [properties |-> [properties EXCEPT ![EntryOf(properties, name)] =
                              [name |-> name, plain |-> value]],
          exception |-> "none"]

\* self._properties.get(name) == None
GetIsNone(properties, name) ==
    \/ ~HasProperty(properties, name)
    \/ /\ ~IsPropertyObject(properties[EntryOf(properties, name)])
       /\ properties[EntryOf(properties, name)].plain = NoValue

\* DeviceTreeNode.remove_property
remove_property(properties, name) ==
    IF GetIsNone(properties, name)
    THEN [properties |-> properties, exception |-> "KeyError"]
    ELSE [properties |-> Pop(properties, name), exception |-> "none"]

\* DeviceTreeNodeProperty.set_value: _value is assigned to itself, and the
\* record that is appended is built from _value
set_value(property, value, line_number, key_span, value_span) ==
    IF value.kind = property.value.kind
    THEN [property |-> [property EXCEPT
                           !.value = property.value,
                           !.history_list = Append(property.history_list,
                                                   ValueElement(property.value, line_number,
                                                                key_span, value_span))],
          exception |-> "none"]
    ELSE [property |-> property, exception |-> "TypeError"]

InitNode ==
    /\ contents = <<>>
    /\ pc = "node"
    /\ pos = 0
    /\ nodes = <<DeviceTreeNode(<<"/">>, FALSE, None, None, NoNode)>>
    /\ current_node = NoNode
    /\ root_nodes = <<>>
    /\ prop_index = 1
    /\ mixed_default_value = <<>>
    /\ error = "none"
    /\ result = Call("DeviceTreeNode", <<"/">>, NoValue)

\* the node after a call: its properties, the exception, the call
Called(properties, exception, call) ==
    /\ nodes' = [nodes EXCEPT ![1].properties = properties]
    /\ error' = exception
    /\ result' = call
    /\ UNCHANGED <<contents, pc, pos, current_node, root_nodes, prop_index,
                   mixed_default_value>>

AddProperty ==
    /\ pc = "node"
    /\ \E name \in PropertyNames, value \in PropertyValues :
           LET st == add_property(PassState(nodes[1].properties, mixed_default_value,
                                            "none"),
                                  name, value, <<1, 1>>, <<0, 1>>, <<2, 3>>)
           IN  Called(st.properties, st.exception, Call("add_property", name, value))

ModifyProperty ==
    /\ pc = "node"
    /\ \E name \in PropertyNames, value \in PlainValues :
           LET r == modify_property(nodes[1].properties, name, value)
           IN  Called(r.properties, r.exception, Call("modify_property", name, value))

RemoveProperty ==
    /\ pc = "node"
    /\ \E name \in PropertyNames :
           LET r == remove_property(nodes[1].properties, name)
           IN  Called(r.properties, r.exception, Call("remove_property", name, NoValue))

\* set_value on a property object of the node
SetValue ==
    /\ pc = "node"
    /\ \E i \in 1 .. Len(nodes[1].properties), value \in PropertyValues :
           /\ IsPropertyObject(nodes[1].properties[i])
           /\ Len(nodes[1].properties[i].history_list) < MaxHistory
           /\ LET r == set_value(nodes[1].properties[i], value, <<2, 2>>, <<4, 5>>, <<6, 7>>)
              IN  Called([nodes[1].properties EXCEPT ![i] = r.property], r.exception,
                         Call("set_value", nodes[1].properties[i].name, value))

NextNode ==
    \/ AddProperty
    \/ ModifyProperty
    \/ RemoveProperty
    \/ SetValue

SpecNode == InitNode /\ [][NextNode]_vars

\* the step is a call of set_value with a value of the kind of the first
\* value of property i of the node
SetValueOfSameKind(i) ==
    /\ result'.call = "set_value"
    /\ i <= Len(nodes[1].properties)
    /\ nodes[1].properties[i].name = result'.name
    /\ result'.value.kind = nodes[1].properties[i].history_list[1].value.kind

\* C16: set_value with a value v of the kind of the property's first value
\* appends one history record whose value is v and makes v the current value
\* of the property; the earlier records stay as they are.
C16_SetValueAppendsAndUpdates ==
    [][\A i \in 1 .. 2 :
           SetValueOfSameKind(i) =>
               /\ error' = "none"
               /\ nodes'[1].properties[i].value = result'.value
               /\ Len(nodes'[1].properties[i].history_list)
                      = Len(nodes[1].properties[i].history_list) + 1
               /\ Last(nodes'[1].properties[i].history_list).value = result'.value
               /\ \A k \in 1 .. Len(nodes[1].properties[i].history_list) :
                      nodes'[1].properties[i].history_list[k]
                          = nodes[1].properties[i].history_list[k]]_vars

\* every entry of the property map is a property object with a history, and
\* its current value is the value of its last record
EntriesSound(properties) ==
    \A i \in 1 .. Len(properties) :
        /\ IsPropertyObject(properties[i])
        /\ properties[i].history_list # <<>>
        /\ properties[i].value = Last(properties[i].history_list).value

\* a call of remove_property removes the entry of a key of the map, and
\* otherwise raises an error and changes nothing
RemoveIsExact ==
    result'.call = "remove_property" =>
        IF HasProperty(nodes[1].properties, result'.name)
        THEN /\ error' = "none"
             /\ nodes'[1].properties = Pop(nodes[1].properties, result'.name)
        ELSE /\ error' # "none"
             /\ nodes'[1].properties = nodes[1].properties

\* C20: after any sequence of add_property, modify_property, remove_property
\* and set_value every entry of the node's property map is a property object
\* with a non-empty history whose current value is the value of its last
\* record, and remove_property(name) removes the entry exactly when name is a
\* key of the map.
C20_PropertyMapSound ==
    [][EntriesSound(nodes'[1].properties) /\ RemoveIsExact]_vars

\* the elements that the right-hand side of a property holds by itself
OwnElements(property) == MixedProperty_from_string(ValueText(property), <<>>).list

\* C17: the elements of the value of a mixed property are the string, cell
\* and byte list elements of its own right-hand side, in source order,
\* whatever mixed property was classified before it.  (The value of every
\* MixedProperty is the list mixed_default_value.)
C17_MixedValueIsItsOwn ==
    \A e \in StoredWithValue :
        nodes[e[1]].properties[e[2]].value.kind = "Mixed" =>
            mixed_default_value = OwnElements(nodes[e[1]].properties[e[2]])

(***************************************************************************)
(* WholeDeviceTree: nodes is a tree of DeviceTreeNode objects, result the  *)
(* WholeDeviceTree object, pc the method called last, current_node the     *)
(* node it was given and error the exception that it raised.  A dict is a  *)
(* function on its keys.                                                   *)
(***************************************************************************)
MaxNodes == 3

\* the phandle of a node: None or a label
Labels == {None, <<"l">>}

\* the trees of n nodes under a root node, the others named a or b
RECURSIVE Trees(_)
Trees(n) ==
    IF n = 1 THEN {<<DeviceTreeNode(<<"/">>, FALSE, None, None, NoNode)>>}
    ELSE {NewNode(t, DeviceTreeNode(name, FALSE, phandle, None, parent)) :
              t \in Trees(n - 1), name \in {<<"a">>, <<"b">>}, phandle \in Labels,
              parent \in 1 .. n - 1}

\* the lists of nodes given to the constructor
NodeLists ==
    {<<>>} \cup {<<i>> : i \in 1 .. MaxNodes}
           \cup {<<i, j>> : i, j \in 1 .. MaxNodes}

EmptyDict == [k \in {} |-> NoNode]

Put(dict, key, n) == [k \in DOMAIN dict \cup {key} |-> IF k = key THEN n ELSE dict[k]]

\* the loop of WholeDeviceTree.__init__ over nodes, from the i-th on
RECURSIVE RegisterListed(_, _, _, _)
RegisterListed(w, ns, list, i) ==
    IF i > Len(list) THEN w
    ELSE RegisterListed(
             [w EXCEPT
                 !._nodes = IF ns[list[i]].name \in DOMAIN w._nodes THEN w._nodes
                           ELSE Put(w._nodes, ns[list[i]].name, list[i]),
                 !._phandles = IF ns[list[i]].phandle # None
                                 /\ ns[list[i]].phandle \notin DOMAIN w._phandles
                              THEN Put(w._phandles, ns[list[i]].phandle, list[i])
                              ELSE w._phandles],
             ns, list, i + 1)

\* WholeDeviceTree.__init__
WholeDeviceTree(ns, list) ==
    RegisterListed([_root_node |-> DeviceTreeNode(<<"/">>, FALSE, None, None, NoNode),
                    _nodes |-> EmptyDict, _phandles |-> EmptyDict],
                   ns, list, 1)

\* WholeDeviceTree.register_phandle
register_phandle(w, phandle, n) == [w EXCEPT !._phandles = Put(w._phandles, phandle, n)]

\* WholeDeviceTree.register_all_from_node: the first node of PreOrderIter is
\* the node given.  self._nodes[n.name] raises KeyError for a name that is not
\* registered; for a registered name the test "n.name in" the registered node
\* goes to DeviceTreeNode.__getitem__(0), because the class has no
\* __contains__ and no __iter__, and that raises ValueError since no child
\* has the name or phandle 0.  The body of the if is never reached.
register_all_from_node(w, ns, n) ==
    IF ns[n].name \notin DOMAIN w._nodes
    THEN [object |-> w, exception |-> "KeyError"]
    ELSE [object |-> w, exception |-> "ValueError"]

\* WholeDeviceTree.register_all_from_root: the node that is registered
FromRoot(ns, any_node) ==
    IF ns[any_node].parent # NoNode THEN ns[any_node].parent ELSE any_node

InitRegistry ==
    /\ contents = <<>>
    /\ pc = "start"
    /\ pos = 0
    /\ nodes \in Trees(MaxNodes)
    /\ current_node = NoNode
    /\ root_nodes = <<1>>
    /\ prop_index = 1
    /\ mixed_default_value = <<>>
    /\ error = "none"
    /\ result = NoResult

NewWholeDeviceTree ==
    /\ pc = "start"
    /\ \E list \in NodeLists :
           result' = WholeDeviceTree(nodes, list)
    /\ pc' = "__init__"
    /\ UNCHANGED <<contents, pos, nodes, current_node, root_nodes, prop_index,
                   mixed_default_value, error>>

RegisterPhandle ==
    /\ pc # "start"
    /\ \E phandle \in Labels \ {None}, n \in 1 .. MaxNodes :
           /\ result' = register_phandle(result, phandle, n)
           /\ current_node' = n
    /\ pc' = "register_phandle"
    /\ error' = "none"
    /\ UNCHANGED <<contents, pos, nodes, root_nodes, prop_index, mixed_default_value>>

\* the outcome r of register_all_from_node(n), called by method
Registered(method, n, r) ==
    /\ result' = r.object
    /\ error' = r.exception
    /\ current_node' = n
    /\ pc' = method
    /\ UNCHANGED <<contents, pos, nodes, root_nodes, prop_index, mixed_default_value>>

RegisterAllFromNode ==
    /\ pc # "start"
    /\ \E n \in 1 .. MaxNodes :
           Registered("register_all_from_node", n, register_all_from_node(result, nodes, n))

RegisterAllFromRoot ==
    /\ pc # "start"
    /\ \E n \in 1 .. MaxNodes :
           Registered("register_all_from_root", FromRoot(nodes, n),
                      register_all_from_node(result, nodes, FromRoot(nodes, n)))

NextRegistry ==
    \/ NewWholeDeviceTree
    \/ RegisterPhandle
    \/ RegisterAllFromNode
    \/ RegisterAllFromRoot

SpecRegistry == InitRegistry /\ [][NextRegistry]_vars

\* every node of the subtree of n has its name and its label in the maps w
SubtreeRegistered(w, n) ==
    \A i \in 1 .. Len(PreOrderIter(nodes, n)) :
        /\ nodes[PreOrderIter(nodes, n)[i]].name \in DOMAIN w._nodes
        /\ nodes[PreOrderIter(nodes, n)[i]].phandle # None
               => nodes[PreOrderIter(nodes, n)[i]].phandle \in DOMAIN w._phandles

\* every key of the maps of w has its node in the maps of v
KeepsEarlier(w, v) ==
    /\ \A k \in DOMAIN w._nodes : k \in DOMAIN v._nodes /\ v._nodes[k] = w._nodes[k]
    /\ \A k \in DOMAIN w._phandles : k \in DOMAIN v._phandles /\ v._phandles[k] = w._phandles[k]

\* C18: after register_all_from_node(n) every node of the subtree of n whose
\* name was not registered is in the name map and every label of such a node
\* that was not registered is in the phandle map, while a name or label that
\* was registered keeps its earlier node.
C18_RegistersSubtreeFirstWins ==
    [][pc' = "register_all_from_node" =>
           /\ error' = "none"
           /\ SubtreeRegistered(result', current_node')
           /\ KeepsEarlier(result, result')]_vars

\* the 1-based number of the line of the character at offset p of the buffer
LineOf(p) == 1 + CountNewlines(Slice(contents, 0, p))

\* C19: the line span recorded for a key = value statement is 1-based and
\* exact: the line of the first character of the key and the line of the
\* last character of the value, also for a key that starts right after the
\* opening brace of the node.
C19_LineSpanExact ==
    \A e \in StoredWithValue :
        nodes[e[1]].properties[e[2]].history_list[1].line_number =
            <<LineOf(nodes[e[1]].properties[e[2]].history_list[1].key_span[1]),
              LineOf(nodes[e[1]].properties[e[2]].history_list[1].value_span[2] - 1)>>

(***************************************************************************)
(* The extent of the property block of a node (Spec)                       *)
(***************************************************************************)
\* the first header or close that stands after the opening brace of node n:
\* the header of its first child, or its own close when it has no child
FirstScopeIn(n) == NextScope(contents, nodes[n].properties_span[1])

\* where the block of node n ends: at the start of that header or close, and
\* at the end of the buffer when neither follows the opening brace
ClaimedEnd(n) == IF FirstScopeIn(n).ok THEN FirstScopeIn(n).start ELSE Len(contents)

\* the block of node n runs from just after its opening brace up to the
\* start of the header of its first child, or of its own close
BlockAsClaimed(n) ==
    /\ nodes[n].properties_span[1] > 0
    /\ At(contents, nodes[n].properties_span[1] - 1) = "{"
    /\ BlockOf(n) = Slice(contents, nodes[n].properties_span[1], ClaimedEnd(n))

\* every property of node n was read from a statement between its opening
\* brace and its first child (or its own close)
StoredFromOwnBlock(n) ==
    \A i \in 1 .. Len(nodes[n].properties) :
        /\ nodes[n].properties_span[1] <= nodes[n].properties[i].history_list[1].key_span[1]
        /\ nodes[n].properties[i].history_list[1].value_span[2] <= ClaimedEnd(n)

\* the end of a property block, once set, is set for good
BlockEndKept ==
    \A n \in NodeIds :
        nodes[n].properties_span[2] # -1 =>
            nodes'[n].properties_span = nodes[n].properties_span

\* C21: the property block of a node is the text from just after its opening
\* brace up to the start of the header of its first child, or up to its own
\* close when it has no child; its end is never moved once it is set; and the
\* properties of every node of a returned tree come from its own block, so a
\* statement that stands after the first child of a node is in no node's map.
C21_BlockEndsAtFirstChild ==
    /\ [][BlockEndKept]_vars
    /\ [](result.returned =>
              \A n \in NodeIds : BlockAsClaimed(n) /\ StoredFromOwnBlock(n))

====
